---- MODULE Spec2Model ----
(***************************************************************************)
(* Quote / invoice lifecycle of src/main_application.py: the SQLite store  *)
(* kept by DatabaseManager (clients, quotes, quote_sites, quote_items,     *)
(* counters), the numbering engine generate_quote_number, and the          *)
(* QuoteDialog that builds the Quote objects handed to save_quote.         *)
(*                                                                         *)
(* Every DatabaseManager method opens its own connection                   *)
(* ("with sqlite3.connect(...) as conn"): the statements of one method     *)
(* form one transaction that is committed at the end of the with block and *)
(* rolled back when an exception leaves it.  A method is one action; an    *)
(* input "fault" says after how many write statements of the transaction   *)
(* the store raises sqlite3.Error (0: never).                              *)
(*                                                                         *)
(* A Quote object lives between the call that read it (get_quotes) and the *)
(* save_quote that writes it back; other calls on the same database file   *)
(* may run in between.  Not modelled: the columns site_number and         *)
(* site_address of quotes (deprecated), the created_at of the Quote        *)
(* objects, the PDF and Word generators, the edition of clients.           *)
(***************************************************************************)
EXTENDS Integers, Sequences, FiniteSets, TLC

VARIABLES
    clients,      \* table clients: id -> name (a tuple of characters)
    quotes,       \* table quotes: id -> row (quotes and invoices)
    quote_sites,  \* table quote_sites: quote_id -> its rows, in rowid order
    quote_items,  \* table quote_items: quote_id -> its rows, in rowid order
    counters,     \* table counters: <<client_name, month_year>> -> counter
    seq,          \* sqlite_sequence of quotes (AUTOINCREMENT): last id used
    now,          \* datetime.datetime.now(): [year, month]
    held,         \* QuoteDialog.quote: the Quote object a caller of save_quote holds
    last,         \* the last call and its outcome
    base,         \* history: the counter of the starting month when the run began
    issued,       \* history: the calls of generate_quote_number in this run
    assigned,     \* history: <<number, id>> of every document that was ever stored
    gens,         \* history: how many numbers were generated in this run
    wasReset,     \* history: quotes whose linked invoice was deleted
    steps,        \* history: how many calls were made in this run
    conns,        \* connection -> the generate_quote_number call it is running
    lock,         \* the connection that holds the write lock of the file (0: none)
    db            \* the database file: its tables, their columns and row counts

vars == <<clients, quotes, quote_sites, quote_items, counters, seq, now,
          held, last, base, issued, assigned, gens, wasReset, steps,
          conns, lock, db>>

-----------------------------------------------------------------------------
(* Bounds of the model *)

\* ids the AUTOINCREMENT sequence of quotes may hand out
MaxId == 3

\* calls (of the dialog and of DatabaseManager) in one run
MaxSteps == 6

\* the counter of the aged database the run may start from
AgedCounter == 998

\* numbers that may be generated in one run (failed operations consume numbers too)
MaxGens == MaxId + 1

-----------------------------------------------------------------------------
(* Values *)

\* SQL NULL / Python None of an integer column or field
NULL == 0

\* SQL NULL / Python None of a text column or field
NoText == "None"

LowerChars == <<"a","b","c","d","e","f","g","h","i","j","k","l","m",
                "n","o","p","q","r","s","t","u","v","w","x","y","z">>

UpperChars == <<"A","B","C","D","E","F","G","H","I","J","K","L","M",
                "N","O","P","Q","R","S","T","U","V","W","X","Y","Z">>

DigitChars == <<"0","1","2","3","4","5","6","7","8","9">>

Range(s) == {s[i] : i \in DOMAIN s}

Min(a, b) == IF a < b THEN a ELSE b

\* lower-case letter -> upper-case letter
UpperOf == [c \in Range(LowerChars) |->
               UpperChars[CHOOSE i \in DOMAIN LowerChars : LowerChars[i] = c]]

\* str.upper() on one character
UpperChar(c) == IF c \in DOMAIN UpperOf THEN UpperOf[c] ELSE c

Upper(s) == [i \in DOMAIN s |-> UpperChar(s[i])]

AlnumChars == Range(LowerChars) \cup Range(UpperChars) \cup Range(DigitChars)

\* the complement of the class [^A-Za-z0-9]
IsAlnum(c) == c \in AlnumChars

RECURSIVE Join(_)
Join(cs) == IF cs = <<>> THEN "" ELSE Head(cs) \o Join(Tail(cs))

\* the token without the cut to ten characters
CleanNameNoCut(name) == Join(SelectSeq(Upper(name), IsAlnum))

\* re.sub(r'[^A-Za-z0-9]', '', client_name.upper())[:10]
CleanName(name) ==
    LET kept == SelectSeq(Upper(name), IsAlnum)
    IN  Join(SubSeq(kept, 1, Min(Len(kept), 10)))

RECURSIVE Dec(_)
Dec(n) == IF n < 10 THEN DigitChars[n + 1]
          ELSE Dec(n \div 10) \o DigitChars[(n % 10) + 1]

RECURSIVE ZeroPad(_, _)
ZeroPad(s, w) == IF Len(s) >= w THEN s ELSE ZeroPad("0" \o s, w)

\* now.strftime("%m%Y")
MonthYear(t) == ZeroPad(Dec(t.month), 2) \o Dec(t.year)

\* BUSINESS_CONFIG 'invoice_prefix' / 'quote_prefix'
Prefix(is_invoice) == IF is_invoice THEN "FA" ELSE "SA"

\* the number without its month: f"{prefix}.{clean_name}.{counter:03d}"
FormatNumberNoPeriod(prefix, clean_name, month_year, counter) ==
    prefix \o "." \o clean_name \o "." \o ZeroPad(Dec(counter), 3)

\* f"{prefix}.{clean_name}.{month_year}{counter:03d}"
FormatNumber(prefix, clean_name, month_year, counter) ==
    prefix \o "." \o clean_name \o "." \o month_year \o ZeroPad(Dec(counter), 3)

\* the clients of the model: two names with the same token
NameAcmeCo == <<"A","c","m","e"," ","C","o">>
NameAcmeDash == <<"A","C","M","E","-","C","O">>

Ids == 1 .. MaxId

-----------------------------------------------------------------------------
(* Entity model *)

Site1 == [site_number |-> "S-001", address |-> "1 rue A", postal_code |-> "75001",
          city |-> "Paris", latitude |-> "48.8566", longitude |-> "2.3522",
          description |-> "Inspection", price_ht |-> 10000]

Site2 == [site_number |-> "S-002", address |-> "", postal_code |-> "",
          city |-> "", latitude |-> "", longitude |-> "",
          description |-> "Nettoyage", price_ht |-> 25000]

\* prices are in cents

\* QuoteItem(description=desc, price_ht=price, quantity=1)
Item1 == [description |-> "Forfait", price_ht |-> 5000, quantity |-> 1]

\* the line items of the dialog when "Enregistrer" is pressed, after the user's
\* add_site / remove_site / add_item / remove_item
ContentVals == {[sites |-> <<>>, items |-> <<>>],
                [sites |-> <<Site1, Site2>>, items |-> <<>>],
                [sites |-> <<Site1>>, items |-> <<Item1>>]}

TypologyVals == {"TT"}

\* the day, month and year fields of the dialog: a calendar date and one that
\* datetime.date refuses
DateVals == {[day |-> 10, month |-> 5, year |-> 2025],
             [day |-> 31, month |-> 2, year |-> 2025]}

\* calendar.isleap
IsLeap(year) == (year % 4 = 0 /\ year % 100 # 0) \/ year % 400 = 0

\* the days of a month
DaysIn(month, year) ==
    IF month = 2 THEN (IF IsLeap(year) THEN 29 ELSE 28)
    ELSE IF month \in {4, 6, 9, 11} THEN 30 ELSE 31

\* datetime.date(year, month, day) raises no ValueError
ValidDate(d) ==
    /\ d.year \in 1 .. 9999
    /\ d.month \in 1 .. 12
    /\ d.day \in 1 .. DaysIn(d.month, d.year)

\* quote.quote_date.isoformat()
IsoDate(d) == ZeroPad(Dec(d.year), 4) \o "-" \o ZeroPad(Dec(d.month), 2) \o "-"
              \o ZeroPad(Dec(d.day), 2)

OrderRefs == {"PO-9"}

InterventionDates == {"2025-06-01"}

\* Quote(): the defaults of the dataclass
Draft ==
    [id |-> NULL, number |-> "", client_id |-> 0, typology |-> "",
     sites |-> <<>>, items |-> <<>>, quote_date |-> NoText,
     intervention_date |-> NoText, is_invoice |-> FALSE,
     invoice_number |-> NoText, order_number |-> "",
     is_invoiced |-> FALSE, linked_invoice_id |-> NULL]

\* BUSINESS_CONFIG 'default_vat_rate' (0.20), in percent
VatRate == 20

\* SiteItem.total_ht
SiteTotal(site) == site.price_ht

\* QuoteItem.total_ht
ItemTotal(item) == item.price_ht * item.quantity

\* sum(site.total_ht for site in self.sites)
RECURSIVE SumSites(_)
SumSites(sites) ==
    IF sites = <<>> THEN 0 ELSE SiteTotal(Head(sites)) + SumSites(Tail(sites))

\* sum(item.total_ht for item in self.items)
RECURSIVE SumItems(_)
SumItems(items) ==
    IF items = <<>> THEN 0 ELSE ItemTotal(Head(items)) + SumItems(Tail(items))

\* the total of the sites alone
TotalHtSitesOnly(q) == SumSites(q.sites)

\* Quote.total_ht, computed from the lists of the object at each read
TotalHt(q) == SumSites(q.sites) + SumItems(q.items)

\* Quote.total_tva: total_ht * vat_rate (the prices of the model are multiples
\* of five cents, so the product is a whole number of cents)
TotalTva(q) == (TotalHt(q) * VatRate) \div 100

\* Quote.total_ttc
TotalTtc(q) == TotalHt(q) + TotalTva(q)

\* no dialog is open
Closed == [open |-> FALSE, quote |-> Draft]

-----------------------------------------------------------------------------
(* The store: statements of a transaction on quotes, quote_sites, quote_items *)

\* clock: the CURRENT_TIMESTAMP of the statements of the transaction
Store == [quotes |-> quotes, sites |-> quote_sites, items |-> quote_items, seq |-> seq,
          clock |-> now]

Exists(tx, id) == id \in DOMAIN tx.quotes

\* number TEXT UNIQUE NOT NULL
NumberTaken(tx, number) == \E i \in DOMAIN tx.quotes : tx.quotes[i].number = number

\* INSERT INTO quotes (...): the row gets the next AUTOINCREMENT id and
\* created_at TIMESTAMP DEFAULT CURRENT_TIMESTAMP
InsertQuote(tx, row) ==
    [tx EXCEPT !.quotes = ((tx.seq + 1) :> ([created_at |-> tx.clock] @@ row))
                          @@ tx.quotes,
               !.seq = tx.seq + 1]

\* UPDATE quotes SET client_id=?, typology=?, quote_date=?, intervention_date=?,
\*   invoice_number=?, order_number=?, ..., is_invoiced=?, linked_invoice_id=? WHERE id=?
UpdateHeader(tx, q) ==
    IF ~Exists(tx, q.id) THEN tx
    ELSE [tx EXCEPT !.quotes[q.id] =
            [@ EXCEPT !.client_id = q.client_id,
                      !.typology = q.typology,
                      !.quote_date = q.quote_date,
                      !.intervention_date = q.intervention_date,
                      !.invoice_number = q.invoice_number,
                      !.order_number = q.order_number,
                      !.is_invoiced = q.is_invoiced,
                      !.linked_invoice_id = q.linked_invoice_id]]

\* UPDATE quotes SET is_invoiced = TRUE, linked_invoice_id = ? WHERE id = ?
MarkInvoiced(tx, id, invoice_id) ==
    IF ~Exists(tx, id) THEN tx
    ELSE [tx EXCEPT !.quotes[id] =
            [@ EXCEPT !.is_invoiced = TRUE, !.linked_invoice_id = invoice_id]]

\* UPDATE quotes SET is_invoiced = FALSE, linked_invoice_id = NULL
\*   WHERE linked_invoice_id = ?
ResetLinks(tx, invoice_id) ==
    [tx EXCEPT !.quotes =
        [i \in DOMAIN tx.quotes |->
            IF tx.quotes[i].linked_invoice_id = invoice_id
            THEN [tx.quotes[i] EXCEPT !.is_invoiced = FALSE,
                                      !.linked_invoice_id = NULL]
            ELSE tx.quotes[i]]]

\* INSERT INTO quote_sites (quote_id, site_number, address, ..., price_ht)
InsertSite(tx, quote_id, site) ==
    [tx EXCEPT !.sites[quote_id] = Append(@,
        [site_number |-> site.site_number, address |-> site.address,
         postal_code |-> site.postal_code, city |-> site.city,
         latitude |-> site.latitude, longitude |-> site.longitude,
         description |-> site.description, price_ht |-> site.price_ht])]

\* INSERT INTO quote_items (quote_id, description, price_ht, quantity)
InsertItem(tx, quote_id, item) ==
    [tx EXCEPT !.items[quote_id] = Append(@,
        [description |-> item.description, price_ht |-> item.price_ht,
         quantity |-> item.quantity])]

\* DELETE FROM quote_sites without its WHERE
DeleteSitesAll(tx, quote_id) == [tx EXCEPT !.sites = [i \in DOMAIN @ |-> <<>>]]

\* DELETE FROM quote_sites WHERE quote_id = ?
DeleteSites(tx, quote_id) == [tx EXCEPT !.sites[quote_id] = <<>>]

\* DELETE FROM quote_items without its WHERE
DeleteItemsAll(tx, quote_id) == [tx EXCEPT !.items = [i \in DOMAIN @ |-> <<>>]]

\* DELETE FROM quote_items WHERE quote_id = ?
DeleteItems(tx, quote_id) == [tx EXCEPT !.items[quote_id] = <<>>]

\* DELETE FROM quotes WHERE id = ?
DeleteRow(tx, id) ==
    [tx EXCEPT !.quotes = [i \in DOMAIN tx.quotes \ {id} |-> tx.quotes[i]]]

\* a statement raises sqlite3.IntegrityError instead of taking effect
Violates(tx, st) == st.op = "insert_quote" /\ NumberTaken(tx, st.row.number)

Apply(tx, st) ==
    CASE st.op = "insert_quote" -> InsertQuote(tx, st.row)
      [] st.op = "update_header" -> UpdateHeader(tx, st.row)
      [] st.op = "mark_invoiced" -> MarkInvoiced(tx, st.id, st.ref)
      [] st.op = "reset_links" -> ResetLinks(tx, st.id)
      [] st.op = "insert_site" -> InsertSite(tx, st.id, st.row)
      [] st.op = "insert_item" -> InsertItem(tx, st.id, st.row)
      [] st.op = "delete_sites" -> DeleteSites(tx, st.id)
      [] st.op = "delete_items" -> DeleteItems(tx, st.id)
      [] st.op = "delete_row" -> DeleteRow(tx, st.id)

Stmt(op, id, ref, row) == [op |-> op, id |-> id, ref |-> ref, row |-> row]

\* a connection that commits what ran before the exception
RollbackNothing(before, partial) == partial

\* "with sqlite3.connect(...) as conn": an exception leaving the block rolls
\* the transaction back
Rollback(before, partial) == before

\* cursor.execute for each statement in turn; statement number `fault` (if any)
\* raises, and so does a statement that violates a constraint.  done counts the
\* statements that took effect.
RECURSIVE Run(_, _, _, _, _)
Run(before, tx, stmts, fault, done) ==
    IF stmts = <<>> THEN [tx |-> tx, failed |-> FALSE, done |-> done]
    ELSE IF fault = done + 1 \/ Violates(tx, Head(stmts))
         THEN [tx |-> Rollback(before, tx), failed |-> TRUE, done |-> done]
         ELSE Run(before, Apply(tx, Head(stmts)), Tail(stmts), fault, done + 1)

\* one transaction: [tx: the store afterwards, failed, done]
Transaction(tx, stmts, fault) == Run(tx, tx, stmts, fault, 0)

-----------------------------------------------------------------------------
(* DatabaseManager *)

\* INSERT OR REPLACE in place of INSERT OR IGNORE: the counter starts over
InsertOrReplace(ctrs, key) == (key :> 0) @@ ctrs

\* INSERT OR IGNORE INTO counters (client_name, month_year, counter) VALUES (?, ?, 0)
InsertOrIgnore(ctrs, key) == IF key \in DOMAIN ctrs THEN ctrs ELSE (key :> 0) @@ ctrs

\* the counter read without the UPDATE that increments it
IncrementLost(ctrs, key) == ctrs

\* UPDATE counters SET counter = counter + 1 WHERE client_name = ? AND month_year = ?
Increment(ctrs, key) == [ctrs EXCEPT ![key] = @ + 1]

\* the key of the counter row: (clean_name, month_year)
CounterKey(client_name, t) == <<CleanName(client_name), MonthYear(t)>>

\* generate_quote_number: [counters: the table afterwards (committed by the
\* method's own connection), counter, number]
GenerateQuoteNumber(ctrs, client_name, is_invoice, t) ==
    LET key == CounterKey(client_name, t)
        after == Increment(InsertOrIgnore(ctrs, key), key)
    IN  [counters |-> after,
         counter |-> after[key],
         number |-> FormatNumber(Prefix(is_invoice), key[1], key[2], after[key])]

\* the values of INSERT INTO quotes in save_quote
QuoteRow(q) ==
    [number |-> q.number, client_id |-> q.client_id, typology |-> q.typology,
     quote_date |-> q.quote_date, intervention_date |-> q.intervention_date,
     is_invoice |-> q.is_invoice, invoice_number |-> q.invoice_number,
     order_number |-> q.order_number, is_invoiced |-> q.is_invoiced,
     linked_invoice_id |-> q.linked_invoice_id]

SiteInserts(quote_id, sites) ==
    [i \in 1 .. Len(sites) |-> Stmt("insert_site", quote_id, NULL, sites[i])]

ItemInserts(quote_id, items) ==
    [i \in 1 .. Len(items) |-> Stmt("insert_item", quote_id, NULL, items[i])]

\* the statements save_quote executes for the Quote object q
SaveStmts(tx, q) ==
    IF q.id = NULL
    THEN <<Stmt("insert_quote", NULL, NULL, QuoteRow(q))>>
         \o SiteInserts(tx.seq + 1, q.sites) \o ItemInserts(tx.seq + 1, q.items)
    ELSE <<Stmt("update_header", q.id, NULL, q),
           Stmt("delete_sites", q.id, NULL, NULL),
           Stmt("delete_items", q.id, NULL, NULL)>>
         \o SiteInserts(q.id, q.sites) \o ItemInserts(q.id, q.items)

\* a save_quote that commits the header statement on its own
SaveQuoteHeaderFirst(tx, q, fault) ==
    LET r == Transaction(tx, SaveStmts(tx, q), fault)
    IN  [quote |-> IF q.id = NULL /\ r.done >= 1 THEN [q EXCEPT !.id = tx.seq + 1]
                   ELSE q,
         tx |-> IF r.failed /\ r.done >= 1
                THEN Apply(tx, Head(SaveStmts(tx, q))) ELSE r.tx,
         failed |-> r.failed, done |-> r.done]

\* save_quote: [tx, failed, done, quote: the Quote object afterwards]
\* quote.id = cursor.lastrowid is assigned as soon as the INSERT has run
SaveQuote(tx, q, fault) ==
    LET r == Transaction(tx, SaveStmts(tx, q), fault)
    IN  [quote |-> IF q.id = NULL /\ r.done >= 1 THEN [q EXCEPT !.id = tx.seq + 1]
                   ELSE q] @@ r

\* get_quotes: the Quote object built from row id and its child rows
ToQuote(tx, id) ==
    LET row == tx.quotes[id]
    IN  [id |-> id, number |-> row.number, client_id |-> row.client_id,
         typology |-> IF row.typology = NoText THEN "" ELSE row.typology,
         sites |-> tx.sites[id], items |-> tx.items[id],
         quote_date |-> row.quote_date,
         intervention_date |-> row.intervention_date,
         is_invoice |-> row.is_invoice,
         invoice_number |-> row.invoice_number,
         order_number |-> row.order_number,
         is_invoiced |-> row.is_invoiced,
         linked_invoice_id |-> row.linked_invoice_id]

\* the values of INSERT INTO quotes in convert_quote_to_invoice
InvoiceRow(quote_row, invoice_number, order_number, intervention_date) ==
    [number |-> invoice_number, client_id |-> quote_row.client_id,
     typology |-> quote_row.typology, quote_date |-> quote_row.quote_date,
     intervention_date |-> intervention_date, is_invoice |-> TRUE,
     invoice_number |-> invoice_number, order_number |-> order_number,
     is_invoiced |-> FALSE, linked_invoice_id |-> NULL]

\* the statements of convert_quote_to_invoice after the number was generated
ConvertStmts(tx, quote_id, invoice_number, order_number, intervention_date) ==
    <<Stmt("insert_quote", NULL, NULL,
           InvoiceRow(tx.quotes[quote_id], invoice_number, order_number,
                      intervention_date))>>
    \o SiteInserts(tx.seq + 1, tx.sites[quote_id])
    \o ItemInserts(tx.seq + 1, tx.items[quote_id])
    \o <<Stmt("mark_invoiced", quote_id, tx.seq + 1, NULL)>>

\* the guard on the wrong kind: "if is_invoice and is_invoiced"
DeleteBlockedWrongKind(row) == row.is_invoice /\ row.is_invoiced

\* "if not is_invoice and is_invoiced: raise ValueError"
DeleteBlocked(row) == ~row.is_invoice /\ row.is_invoiced

\* delete_quote without the reset of the linked quotes
DeleteStmtsNoReset(tx, id) ==
    <<Stmt("delete_items", id, NULL, NULL),
      Stmt("delete_sites", id, NULL, NULL),
      Stmt("delete_row", id, NULL, NULL)>>

\* the statements of delete_quote
DeleteStmts(tx, id) ==
    (IF tx.quotes[id].is_invoice THEN <<Stmt("reset_links", id, NULL, NULL)>> ELSE <<>>)
    \o <<Stmt("delete_items", id, NULL, NULL),
         Stmt("delete_sites", id, NULL, NULL),
         Stmt("delete_row", id, NULL, NULL)>>

\* the count without the invoices: ... WHERE client_id = ? AND is_invoice = 0
QuoteCountQuotesOnly(tx, client_id) ==
    Cardinality({i \in DOMAIN tx.quotes :
                   tx.quotes[i].client_id = client_id /\ ~tx.quotes[i].is_invoice})

\* SELECT COUNT(*) FROM quotes WHERE client_id = ?
QuoteCount(tx, client_id) ==
    Cardinality({i \in DOMAIN tx.quotes : tx.quotes[i].client_id = client_id})

-----------------------------------------------------------------------------
(* init_database: the tables and their columns *)

\* the columns of CREATE TABLE IF NOT EXISTS clients
ClientsCols == <<"id", "name", "siret", "address", "email", "phone", "created_at">>

\* the columns of CREATE TABLE IF NOT EXISTS quotes
QuotesCols == <<"id", "number", "client_id", "typology", "quote_date",
                "intervention_date", "is_invoice", "invoice_number",
                "order_number", "site_number", "site_address", "is_invoiced",
                "linked_invoice_id", "created_at">>

\* the columns of the first CREATE TABLE IF NOT EXISTS quote_sites
SitesCols == <<"id", "quote_id", "site_number", "address", "postal_code", "city",
               "latitude", "longitude", "description", "price_ht">>

\* the columns of CREATE TABLE IF NOT EXISTS quote_items
ItemsCols == <<"id", "quote_id", "description", "price_ht", "quantity">>

\* the columns of CREATE TABLE IF NOT EXISTS counters
CountersCols == <<"id", "client_name", "month_year", "counter">>

\* the columns of the last CREATE TABLE IF NOT EXISTS quote_sites
SitesColsLast == <<"id", "quote_id", "site_number", "site_address", "description",
                   "price_ht">>

\* new_site_columns
NewSiteColumns == <<"address", "postal_code", "city", "latitude", "longitude">>

\* the columns of the four ALTER TABLE quotes of one try block
SiteMigration == <<"site_number", "site_address", "is_invoiced",
                   "linked_invoice_id">>

\* CREATE TABLE IF NOT EXISTS t (cols)
CreateIfNotExists(d, t, cols) ==
    IF t \in DOMAIN d.schema THEN d
    ELSE [d EXCEPT !.schema = (t :> cols) @@ @, !.rows = (t :> 0) @@ @]

\* sqlite3.OperationalError of ALTER TABLE t ADD COLUMN c: duplicate column name
Duplicate(d, t, c) == c \in Range(d.schema[t])

\* ALTER TABLE ADD COLUMN without the duplicate column error
AddColumnAgain(d, t, c) == [d EXCEPT !.schema[t] = Append(@, c)]

\* ALTER TABLE t ADD COLUMN c, in a try block of its own
AddColumn(d, t, c) ==
    IF Duplicate(d, t, c) THEN d ELSE [d EXCEPT !.schema[t] = Append(@, c)]

\* ALTER TABLE t ADD COLUMN for each of cs, every one in its own try block
RECURSIVE AddEach(_, _, _)
AddEach(d, t, cs) ==
    IF cs = <<>> THEN d ELSE AddEach(AddColumn(d, t, Head(cs)), t, Tail(cs))

\* ALTER TABLE t ADD COLUMN for each of cs in one try block: the first error
\* leaves the block
RECURSIVE AddUntilError(_, _, _)
AddUntilError(d, t, cs) ==
    IF cs = <<>> \/ Duplicate(d, t, Head(cs)) THEN d
    ELSE AddUntilError(AddColumn(d, t, Head(cs)), t, Tail(cs))

\* the statements of init_database, in their order
InitDatabase(d) ==
    LET t1 == CreateIfNotExists(d, "clients", ClientsCols)
        t2 == CreateIfNotExists(t1, "quotes", QuotesCols)
        t3 == CreateIfNotExists(t2, "quote_sites", SitesCols)
        t4 == CreateIfNotExists(t3, "quote_items", ItemsCols)
        t5 == CreateIfNotExists(t4, "counters", CountersCols)
        m1 == AddColumn(t5, "quotes", "quote_date")
        m2 == AddColumn(m1, "quotes", "intervention_date")
        m3 == AddColumn(m2, "quotes", "typology")
        m4 == AddEach(m3, "quote_sites", NewSiteColumns)
        m5 == AddUntilError(m4, "quotes", SiteMigration)
    IN  CreateIfNotExists(m5, "quote_sites", SitesColsLast)

\* a file with no table
EmptyDb == [schema |-> <<>>, rows |-> <<>>, runs |-> 0]

\* the file after DatabaseManager.__init__
NewDb == [InitDatabase(EmptyDb) EXCEPT !.runs = 1]

-----------------------------------------------------------------------------
(* State machine *)

ClientIds == {1, 2}

\* which statement of a transaction raises (0: none); no transaction of the
\* model has more than six statements
Faults == 0 .. 6

StartTime == [year |-> 2025, month |-> 5]

Outcome(op, id, result, ret, count) ==
    [op |-> op, id |-> id, result |-> result, ret |-> ret, count |-> count,
     sites |-> <<>>, items |-> <<>>]

\* a call with an unknown id that returns as if it had done its work
NotFoundIgnored(op, quote_id) == Outcome(op, quote_id, "ok", "", 0)

\* row = cursor.fetchone(); if not row: raise ValueError(...)
NotFound(op, quote_id) == Outcome(op, quote_id, "NotFound", "", 0)

\* the outcome of a save_quote(q): the lists of the Quote object that was passed
Saved(out, q) == [out EXCEPT !.sites = q.sites, !.items = q.items]

\* the record of one call of generate_quote_number: the n-th of the run, for
\* client_name and kind at time t, with what it returned
Issue(n, client_name, is_invoice, t, gen) ==
    [n |-> n, name |-> client_name, is_invoice |-> is_invoice,
     key |-> CounterKey(client_name, t), counter |-> gen.counter,
     number |-> gen.number]

\* the documents of the store with their numbers
Numbered(tx) == {<<tx.quotes[i].number, i>> : i \in DOMAIN tx.quotes}

\* the counter row of the aged database
AgedKey == CounterKey(NameAcmeCo, StartTime)

\* the numbers the aged database issued before the run
AgedIssued == {FormatNumber(Prefix(FALSE), CleanName(NameAcmeCo),
                            MonthYear(StartTime), k) : k \in 1 .. AgedCounter}

\* a step of the dialog that calls no DatabaseManager method
UiStep == Outcome("ui", NULL, "ok", "", 0)

\* the connections that may call generate_quote_number at the same time
Procs == {1, 2}

\* a connection that runs no call
Idle == [pc |-> "idle", name |-> <<>>, is_invoice |-> FALSE, key |-> <<"", "">>,
         counter |-> 0, started |-> 0]

\* A new database file with two clients added; or the same after AgedCounter
\* quotes of client 1 were created and deleted in the starting month.
Init ==
    /\ clients = (1 :> NameAcmeCo) @@ (2 :> NameAcmeDash)
    /\ quotes = <<>>
    /\ quote_sites = [i \in Ids |-> <<>>]
    /\ quote_items = [i \in Ids |-> <<>>]
    /\ seq = 0
    /\ now = StartTime
    /\ held = Closed
    /\ last = UiStep
    /\ gens = 0
    /\ wasReset = {}
    /\ steps = 0
    /\ conns = [p \in Procs |-> Idle]
    /\ lock = 0
    /\ db = NewDb
    /\ issued = {}
    /\ assigned = {}
    /\ \/ /\ counters = <<>>
          /\ base = 0
       \/ /\ counters = (AgedKey :> AgedCounter)
          /\ base = AgedCounter

\* MainApplication.new_quote: QuoteDialog(self.root, self.db)
OpenNew ==
    /\ steps < MaxSteps
    /\ steps' = steps + 1
    /\ UNCHANGED <<conns, lock, db>>
    /\ ~held.open
    /\ held' = [open |-> TRUE, quote |-> Draft]
    /\ last' = UiStep
    /\ UNCHANGED <<clients, quotes, quote_sites, quote_items, counters, seq, now,
                   base, issued, assigned, gens, wasReset>>

\* MainApplication.view_quote: the quote is read with get_quotes(is_invoice=False)
OpenEdit(id) ==
    /\ steps < MaxSteps
    /\ steps' = steps + 1
    /\ UNCHANGED <<conns, lock, db>>
    /\ ~held.open
    /\ id \in DOMAIN quotes
    /\ ~quotes[id].is_invoice
    /\ held' = [open |-> TRUE, quote |-> ToQuote(Store, id)]
    /\ last' = UiStep
    /\ UNCHANGED <<clients, quotes, quote_sites, quote_items, counters, seq, now,
                   base, issued, assigned, gens, wasReset>>

\* QuoteDialog.cancel
CancelDialog ==
    /\ steps < MaxSteps
    /\ steps' = steps + 1
    /\ UNCHANGED <<conns, lock, db>>
    /\ held.open
    /\ held' = Closed
    /\ last' = UiStep
    /\ UNCHANGED <<clients, quotes, quote_sites, quote_items, counters, seq, now,
                   base, issued, assigned, gens, wasReset>>

\* the checks of QuoteDialog.save_quote without the check of the content
RejectionNoContentCheck(client, content, date) ==
    IF client = NULL THEN "NoClient"
    ELSE IF ~ValidDate(date) THEN "InvalidDate"
    ELSE ""

\* the checks of QuoteDialog.save_quote before it calls the DatabaseManager, in
\* their order: the error it shows, "" when it shows none
Rejection(client, content, date) ==
    IF client = NULL THEN "NoClient"
    ELSE IF content.sites = <<>> /\ content.items = <<>> THEN "NoContent"
    ELSE IF ~ValidDate(date) THEN "InvalidDate"
    ELSE ""

\* QuoteDialog.save_quote with client `client` of the combobox selected (it lists
\* the stored clients; NULL: none selected), the line items `content` in the
\* dialog, the date fields valid or not, and the typology chosen; it calls
\* generate_quote_number for a quote without number and then
\* DatabaseManager.save_quote
DialogSave(client, content, date, typology, fault) ==
    /\ steps < MaxSteps
    /\ steps' = steps + 1
    /\ UNCHANGED <<conns, lock, db>>
    /\ held.open
    /\ client \in DOMAIN clients \cup {NULL}
    /\ IF Rejection(client, content, date) # ""
       THEN /\ fault = 0
            /\ last' = Outcome("save", held.quote.id, "ValidationError",
                               Rejection(client, content, date), 0)
            /\ UNCHANGED <<quotes, quote_sites, quote_items, counters, seq, held,
                           issued, assigned, gens>>
       ELSE LET q1 == [held.quote EXCEPT !.sites = content.sites,
                                         !.items = content.items,
                                         !.quote_date = IsoDate(date),
                                         !.typology = typology,
                                         !.client_id = client]
                new == q1.number = ""
            IN  /\ new => gens < MaxGens
                /\ q1.id = NULL => seq < MaxId
                /\ \E gen \in {GenerateQuoteNumber(counters, clients[client], FALSE, now)} :
                   \E q2 \in {IF new THEN [q1 EXCEPT !.number = gen.number] ELSE q1} :
                     /\ fault <= Len(SaveStmts(Store, q2))
                     /\ \E r \in {SaveQuote(Store, q2, fault)} :
                          /\ counters' = IF new THEN gen.counters ELSE counters
                          /\ issued' = IF new
                                       THEN issued \cup {Issue(gens + 1, clients[client],
                                                               FALSE, now, gen)}
                                       ELSE issued
                          /\ assigned' = assigned \cup Numbered(r.tx)
                          /\ gens' = IF new THEN gens + 1 ELSE gens
                          /\ quotes' = r.tx.quotes
                          /\ quote_sites' = r.tx.sites
                          /\ quote_items' = r.tx.items
                          /\ seq' = r.tx.seq
                          /\ held' = IF r.failed THEN [open |-> TRUE, quote |-> r.quote]
                                     ELSE Closed
                          /\ last' = Saved(Outcome("save", r.quote.id,
                                                   IF r.failed THEN "StorageError"
                                                   ELSE "ok",
                                                   q2.number, 0), q2)
    /\ UNCHANGED <<clients, now, base, wasReset>>

\* DatabaseManager.convert_quote_to_invoice(quote_id, order_number, intervention_date)
Convert(quote_id, order_number, intervention_date, fault) ==
    /\ steps < MaxSteps
    /\ steps' = steps + 1
    /\ UNCHANGED <<conns, lock, db>>
    /\ IF quote_id \notin DOMAIN quotes
       THEN /\ fault = 0
            /\ last' = NotFound("convert", quote_id)
            /\ UNCHANGED <<quotes, quote_sites, quote_items, counters, seq,
                           issued, assigned, gens>>
       ELSE IF quotes[quote_id].client_id \notin DOMAIN clients
       THEN /\ fault = 0
            /\ last' = Outcome("convert", quote_id, "AttributeError", "", 0)
            /\ UNCHANGED <<quotes, quote_sites, quote_items, counters, seq,
                           issued, assigned, gens>>
       ELSE /\ gens < MaxGens
            /\ seq < MaxId
            /\ \E gen \in {GenerateQuoteNumber(counters,
                                clients[quotes[quote_id].client_id], TRUE, now)} :
               \E stmts \in {ConvertStmts(Store, quote_id, gen.number, order_number,
                                           intervention_date)} :
                 /\ fault <= Len(stmts)
                 /\ \E r \in {Transaction(Store, stmts, fault)} :
                      /\ counters' = gen.counters
                      /\ issued' = issued \cup
                                     {Issue(gens + 1, clients[quotes[quote_id].client_id],
                                            TRUE, now, gen)}
                      /\ assigned' = assigned \cup Numbered(r.tx)
                      /\ gens' = gens + 1
                      /\ quotes' = r.tx.quotes
                      /\ quote_sites' = r.tx.sites
                      /\ quote_items' = r.tx.items
                      /\ seq' = r.tx.seq
                      /\ last' = Outcome("convert", quote_id,
                                         IF r.failed THEN "StorageError" ELSE "ok",
                                         IF r.failed THEN "" ELSE gen.number, 0)
    /\ UNCHANGED <<clients, now, held, base, wasReset>>

\* DatabaseManager.delete_quote(quote_id)
DeleteQuote(quote_id, fault) ==
    /\ steps < MaxSteps
    /\ steps' = steps + 1
    /\ UNCHANGED <<conns, lock, db>>
    /\ IF quote_id \notin DOMAIN quotes
       THEN /\ fault = 0
            /\ last' = NotFound("delete_quote", quote_id)
            /\ UNCHANGED <<quotes, quote_sites, quote_items, seq, wasReset>>
       ELSE IF DeleteBlocked(quotes[quote_id])
       THEN /\ fault = 0
            /\ last' = Outcome("delete_quote", quote_id, "Conflict",
                               quotes[quote_id].number, 0)
            /\ UNCHANGED <<quotes, quote_sites, quote_items, seq, wasReset>>
       ELSE \E stmts \in {DeleteStmts(Store, quote_id)} :
              /\ fault <= Len(stmts)
              /\ \E r \in {Transaction(Store, stmts, fault)} :
                   /\ quotes' = r.tx.quotes
                   /\ quote_sites' = r.tx.sites
                   /\ quote_items' = r.tx.items
                   /\ seq' = r.tx.seq
                   /\ wasReset' =
                         IF ~r.failed /\ quotes[quote_id].is_invoice
                         THEN wasReset \cup {i \in DOMAIN quotes :
                                               quotes[i].linked_invoice_id = quote_id}
                         ELSE wasReset
                   /\ last' = Outcome("delete_quote", quote_id,
                                      IF r.failed THEN "StorageError" ELSE "ok", "", 0)
    /\ UNCHANGED <<clients, counters, now, held, base, issued, assigned, gens>>

\* DatabaseManager.delete_client(client_id)
DeleteClient(client_id) ==
    /\ steps < MaxSteps
    /\ steps' = steps + 1
    /\ UNCHANGED <<conns, lock, db>>
    /\ IF client_id \notin DOMAIN clients
       THEN /\ last' = Outcome("delete_client", client_id, "NotFound", "", 0)
            /\ UNCHANGED clients
       ELSE IF QuoteCount(Store, client_id) > 0
       THEN /\ last' = Outcome("delete_client", client_id, "Conflict", "",
                               QuoteCount(Store, client_id))
            /\ UNCHANGED clients
       ELSE /\ clients' = [c \in DOMAIN clients \ {client_id} |-> clients[c]]
            /\ last' = Outcome("delete_client", client_id, "ok", "", 0)
    /\ UNCHANGED <<quotes, quote_sites, quote_items, counters, seq, now, held,
                   base, issued, assigned, gens, wasReset>>

\* the calendar month changes
Tick ==
    /\ steps < MaxSteps
    /\ steps' = steps + 1
    /\ UNCHANGED <<conns, lock, db>>
    /\ now = StartTime
    /\ now' = IF now.month = 12 THEN [year |-> now.year + 1, month |-> 1]
              ELSE [now EXCEPT !.month = @ + 1]
    /\ last' = UiStep
    /\ UNCHANGED <<clients, quotes, quote_sites, quote_items, counters, seq, held,
                   base, issued, assigned, gens, wasReset>>

Next ==
    \/ OpenNew
    \/ \E id \in Ids : OpenEdit(id)
    \/ CancelDialog
    \/ \E client \in ClientIds \cup {NULL}, content \in ContentVals,
          date \in DateVals, typology \in TypologyVals, fault \in Faults :
          DialogSave(client, content, date, typology, fault)
    \/ \E id \in Ids, order \in OrderRefs, date \in InterventionDates,
          fault \in Faults :
          Convert(id, order, date, fault)
    \/ \E id \in Ids, fault \in Faults : DeleteQuote(id, fault)
    \/ \E client \in ClientIds : DeleteClient(client)
    \/ Tick

Spec == Init /\ [][Next]_vars

-----------------------------------------------------------------------------
(* generate_quote_number, statement by statement, on two connections *)

\* calls of generate_quote_number in one run of the two connections
MaxCalls == 3

\* a name with no letter and no digit, and one with more than ten of them
NameEmpty == <<"-", " ", "&">>
NameLong == <<"d","u","p","o","n","t"," ","&"," ","f","i","l","s"," ","2","4">>

\* the arguments of the calls: client_name and is_invoice
CallVals == {[name |-> NameAcmeCo, is_invoice |-> FALSE],
             [name |-> NameAcmeDash, is_invoice |-> FALSE],
             [name |-> NameAcmeCo, is_invoice |-> TRUE],
             [name |-> NameEmpty, is_invoice |-> FALSE],
             [name |-> NameLong, is_invoice |-> TRUE]}

\* datetime.now() of the run
TimeVals == {StartTime, [year |-> 2025, month |-> 12]}

\* a file without a write lock: every connection writes at once
CanWriteAlways(holder, p) == TRUE

\* the connection can write: no other connection holds the write lock
CanWrite(holder, p) == holder \in {0, p}

\* what the calls leave alone
documents == <<clients, quotes, quote_sites, quote_items, seq, now, held, last,
               base, assigned, wasReset, steps, db>>

\* the database of Init, at any of the times
InitNumbering ==
    /\ clients = (1 :> NameAcmeCo) @@ (2 :> NameAcmeDash)
    /\ quotes = <<>>
    /\ quote_sites = [i \in Ids |-> <<>>]
    /\ quote_items = [i \in Ids |-> <<>>]
    /\ seq = 0
    /\ now \in TimeVals
    /\ held = Closed
    /\ last = UiStep
    /\ gens = 0
    /\ wasReset = {}
    /\ steps = 0
    /\ conns = [p \in Procs |-> Idle]
    /\ lock = 0
    /\ db = NewDb
    /\ issued = {}
    /\ assigned = {}
    /\ \/ /\ counters = <<>>
          /\ base = 0
       \/ /\ counters = (AgedKey :> AgedCounter)
          /\ base = AgedCounter

\* generate_quote_number up to the connect: prefix, clean_name, month_year
GenCall(p, v) ==
    /\ conns[p].pc = "idle"
    /\ gens < MaxCalls
    /\ gens' = gens + 1
    /\ conns' = [conns EXCEPT ![p] =
                    [pc |-> "insert", name |-> v.name, is_invoice |-> v.is_invoice,
                     key |-> CounterKey(v.name, now), counter |-> 0,
                     started |-> Cardinality(issued)]]
    /\ UNCHANGED <<counters, issued, lock>>
    /\ UNCHANGED documents

\* INSERT OR IGNORE INTO counters: the first write of the transaction takes
\* the write lock
GenInsert(p) ==
    /\ conns[p].pc = "insert"
    /\ CanWrite(lock, p)
    /\ lock' = p
    /\ counters' = InsertOrIgnore(counters, conns[p].key)
    /\ conns' = [conns EXCEPT ![p].pc = "update"]
    /\ UNCHANGED <<issued, gens>>
    /\ UNCHANGED documents

\* the INSERT of a connection that waited for the lock longer than the timeout
\* of the connection: sqlite3.OperationalError leaves the method, nothing written
GenBusy(p) ==
    /\ conns[p].pc = "insert"
    /\ ~CanWrite(lock, p)
    /\ conns' = [conns EXCEPT ![p] = Idle]
    /\ UNCHANGED <<counters, issued, gens, lock>>
    /\ UNCHANGED documents

\* UPDATE counters SET counter = counter + 1
GenUpdate(p) ==
    /\ conns[p].pc = "update"
    /\ counters' = Increment(counters, conns[p].key)
    /\ conns' = [conns EXCEPT ![p].pc = "select"]
    /\ UNCHANGED <<issued, gens, lock>>
    /\ UNCHANGED documents

\* SELECT counter FROM counters; counter = cursor.fetchone()[0]
GenSelect(p) ==
    /\ conns[p].pc = "select"
    /\ conns' = [conns EXCEPT ![p].counter = counters[conns[p].key],
                              ![p].pc = "commit"]
    /\ UNCHANGED <<counters, issued, gens, lock>>
    /\ UNCHANGED documents

\* conn.commit() gives the lock back; the method returns the number
GenCommit(p) ==
    /\ conns[p].pc = "commit"
    /\ lock' = IF lock = p THEN 0 ELSE lock
    /\ issued' = issued \cup
          {[n |-> Cardinality(issued) + 1, name |-> conns[p].name,
            is_invoice |-> conns[p].is_invoice, key |-> conns[p].key,
            counter |-> conns[p].counter,
            number |-> FormatNumber(Prefix(conns[p].is_invoice), conns[p].key[1],
                                    conns[p].key[2], conns[p].counter),
            started |-> conns[p].started]}
    /\ conns' = [conns EXCEPT ![p] = Idle]
    /\ UNCHANGED <<counters, gens>>
    /\ UNCHANGED documents

NextNumbering ==
    \/ \E p \in Procs, v \in CallVals : GenCall(p, v)
    \/ \E p \in Procs : GenInsert(p)
    \/ \E p \in Procs : GenBusy(p)
    \/ \E p \in Procs : GenUpdate(p)
    \/ \E p \in Procs : GenSelect(p)
    \/ \E p \in Procs : GenCommit(p)

SpecNumbering == InitNumbering /\ [][NextNumbering]_vars

-----------------------------------------------------------------------------
(* init_database applied to the files of earlier versions *)

\* applications of init_database in one run, and rows written to one table
MaxRuns == 2
MaxRows == 1

\* the columns of quotes that every version had
QuotesColsFirst == <<"id", "number", "client_id", "is_invoice", "invoice_number",
                     "order_number", "created_at">>

\* the columns of quotes that the versions added
QuotesColsLater == <<"typology", "quote_date", "intervention_date", "site_number",
                     "site_address", "is_invoiced", "linked_invoice_id">>

\* the quotes tables of the earlier versions
QuotesVersions ==
    {QuotesColsFirst \o SelectSeq(QuotesColsLater, LAMBDA c : c \in S) :
        S \in SUBSET Range(QuotesColsLater)}

\* the quote_sites tables of the earlier versions
SitesVersions == {SitesColsLast, SitesCols}

\* the files init_database may find: no table, or the tables of an earlier
\* version, with or without a quote_sites table
StartDbs ==
    {EmptyDb} \cup
    {[schema |-> ("clients" :> ClientsCols) @@ ("quotes" :> q)
                 @@ ("quote_items" :> ItemsCols) @@ ("counters" :> CountersCols),
      rows |-> ("clients" :> n) @@ ("quotes" :> n) @@ ("quote_items" :> n)
               @@ ("counters" :> n),
      runs |-> 0] : q \in QuotesVersions, n \in 0 .. MaxRows} \cup
    {[schema |-> ("clients" :> ClientsCols) @@ ("quotes" :> q)
                 @@ ("quote_sites" :> st)
                 @@ ("quote_items" :> ItemsCols) @@ ("counters" :> CountersCols),
      rows |-> ("clients" :> n) @@ ("quotes" :> n) @@ ("quote_sites" :> n)
               @@ ("quote_items" :> n) @@ ("counters" :> n),
      runs |-> 0] : q \in QuotesVersions, st \in SitesVersions, n \in 0 .. MaxRows}

\* what init_database and the rows of the file leave alone
application == <<clients, quotes, quote_sites, quote_items, counters, seq, now,
                 held, last, base, issued, assigned, gens, wasReset, steps,
                 conns, lock>>

InitSchema ==
    /\ clients = <<>>
    /\ quotes = <<>>
    /\ quote_sites = [i \in Ids |-> <<>>]
    /\ quote_items = [i \in Ids |-> <<>>]
    /\ counters = <<>>
    /\ seq = 0
    /\ now = StartTime
    /\ held = Closed
    /\ last = UiStep
    /\ base = 0
    /\ issued = {}
    /\ assigned = {}
    /\ gens = 0
    /\ wasReset = {}
    /\ steps = 0
    /\ conns = [p \in Procs |-> Idle]
    /\ lock = 0
    /\ db \in StartDbs

\* DatabaseManager.__init__: self.init_database()
OpenDatabase ==
    /\ db.runs < MaxRuns
    /\ db' = [InitDatabase(db) EXCEPT !.runs = db.runs + 1]
    /\ UNCHANGED application

\* an INSERT of the application into table t of an initialized file
InsertRow(t) ==
    /\ db.runs > 0
    /\ t \in DOMAIN db.schema
    /\ db.rows[t] < MaxRows
    /\ db' = [db EXCEPT !.rows[t] = @ + 1]
    /\ UNCHANGED application

NextSchema ==
    \/ OpenDatabase
    \/ \E t \in {"clients", "quotes", "quote_sites"} : InsertRow(t)

SpecSchema == InitSchema /\ [][NextSchema]_vars

-----------------------------------------------------------------------------
(* The line items of the QuoteDialog: add_site, update_site, add_item *)

\* sites of one Quote object in the dialog
MaxLines == 2

\* the texts typed into the site number, the description and the price fields
SiteNumbers == {<<"S", "-", "9">>, <<" ">>}
Descriptions == {<<" ", "T", "r", "i", " ">>, <<>>}
PriceStrs == {<<"8", "0">>, <<"1", "2", ",", "5">>, <<"-", "5", "0">>, <<"a">>}

RECURSIVE StripLeft(_)
StripLeft(cs) == IF cs # <<>> /\ Head(cs) = " " THEN StripLeft(Tail(cs)) ELSE cs

Reverse(cs) == [i \in 1 .. Len(cs) |-> cs[Len(cs) + 1 - i]]

\* str.strip()
Strip(cs) == Reverse(StripLeft(Reverse(StripLeft(cs))))

\* price_str.replace(',', '.')
ReplaceComma(cs) == [i \in DOMAIN cs |-> IF cs[i] = "," THEN "." ELSE cs[i]]

\* the value of a digit
DigitVal(c) == CHOOSE d \in 0 .. 9 : DigitChars[d + 1] = c

\* the value of a sequence of digits
RECURSIVE Num(_)
Num(cs) == IF cs = <<>> THEN 0
           ELSE Num(SubSeq(cs, 1, Len(cs) - 1)) * 10 + DigitVal(cs[Len(cs)])

\* float(text) for a text of a sign, digits and at most one point with at most
\* two digits after it: [ok: no ValueError, cents: the value in cents]
ParseFloat(cs) ==
    LET signed == cs # <<>> /\ cs[1] \in {"-", "+"}
        body == IF signed THEN Tail(cs) ELSE cs
        dots == {i \in DOMAIN body : body[i] = "."}
        dot == IF dots = {} THEN Len(body) + 1 ELSE CHOOSE i \in dots : TRUE
        whole == SubSeq(body, 1, dot - 1)
        frac == SubSeq(body, dot + 1, Len(body))
        ok == /\ Cardinality(dots) <= 1
              /\ Len(whole) + Len(frac) > 0
              /\ Len(frac) <= 2
              /\ \A i \in DOMAIN body : i \in dots \/ body[i] \in Range(DigitChars)
        value == Num(whole) * 100
                 + (IF Len(frac) = 1 THEN Num(frac) * 10 ELSE Num(frac))
    IN  IF ~ok THEN [ok |-> FALSE, cents |-> 0]
        ELSE [ok |-> TRUE, cents |-> IF signed /\ cs[1] = "-" THEN 0 - value ELSE value]

\* float(price_str.replace(',', '.')) of add_site, update_site and add_item
ParsePrice(price_str) == ParseFloat(ReplaceComma(price_str))

\* the checks of add_site and update_site, in their order: the error shown
SiteError(site_number, description, price_str) ==
    IF Strip(site_number) = <<>> THEN "NoSiteNumber"
    ELSE IF Strip(description) = <<>> THEN "NoDescription"
    ELSE IF ~ParsePrice(Strip(price_str)).ok THEN "InvalidPrice"
    ELSE ""

\* SiteItem(site_number=..., description=..., price_ht=price) with empty
\* address fields
NewSite(site_number, description, price_str) ==
    [site_number |-> Join(Strip(site_number)), address |-> "", postal_code |-> "",
     city |-> "", latitude |-> "", longitude |-> "",
     description |-> Join(Strip(description)),
     price_ht |-> ParsePrice(Strip(price_str)).cents]

\* what the handlers of the line items leave alone
stored == <<clients, quotes, quote_sites, quote_items, counters, seq, now, base,
            issued, assigned, gens, wasReset, conns, lock, db>>

\* QuoteDialog.add_site
AddSite(site_number, description, price_str) ==
    /\ steps < MaxSteps
    /\ steps' = steps + 1
    /\ held.open
    /\ Len(held.quote.sites) < MaxLines
    /\ \E err \in {SiteError(site_number, description, price_str)} :
         IF err # ""
         THEN /\ last' = Outcome("add_site", held.quote.id, "ValidationError", err, 0)
              /\ UNCHANGED held
         ELSE /\ held' = [held EXCEPT !.quote.sites =
                             Append(@, NewSite(site_number, description, price_str))]
              /\ last' = Outcome("add_site", held.quote.id, "ok", "", 0)
    /\ UNCHANGED stored

\* QuoteDialog.update_site, for the site that edit_site selected
UpdateSite(editing_site_index, site_number, description, price_str) ==
    /\ steps < MaxSteps
    /\ steps' = steps + 1
    /\ held.open
    /\ \E err \in {IF editing_site_index > Len(held.quote.sites) THEN "NoSite"
                   ELSE SiteError(site_number, description, price_str)} :
         IF err # ""
         THEN /\ last' = Outcome("update_site", held.quote.id, "ValidationError",
                                 err, 0)
              /\ UNCHANGED held
         ELSE /\ held' = [held EXCEPT !.quote.sites[editing_site_index] =
                             NewSite(site_number, description, price_str)]
              /\ last' = Outcome("update_site", held.quote.id, "ok", "", 0)
    /\ UNCHANGED stored

\* QuoteDialog.add_item
AddItem(desc, price_str) ==
    /\ steps < MaxSteps
    /\ steps' = steps + 1
    /\ held.open
    /\ Len(held.quote.items) < MaxLines
    /\ \E err \in {IF Strip(desc) = <<>> THEN "NoDescription"
                   ELSE IF ~ParsePrice(Strip(price_str)).ok THEN "InvalidPrice"
                   ELSE ""} :
         IF err # ""
         THEN /\ last' = Outcome("add_item", held.quote.id, "ValidationError", err, 0)
              /\ UNCHANGED held
         ELSE /\ held' = [held EXCEPT !.quote.items =
                             Append(@, [description |-> Join(Strip(desc)),
                                        price_ht |-> ParsePrice(Strip(price_str)).cents,
                                        quantity |-> 1])]
              /\ last' = Outcome("add_item", held.quote.id, "ok", "", 0)
    /\ UNCHANGED stored

\* the dialog from its opening to "Enregistrer", with the lines the handlers
\* built
NextLines ==
    \/ OpenNew
    \/ \E n \in SiteNumbers, d \in Descriptions, p \in PriceStrs : AddSite(n, d, p)
    \/ \E k \in 1 .. MaxLines, n \in SiteNumbers, d \in Descriptions, p \in PriceStrs :
          UpdateSite(k, n, d, p)
    \/ \E d \in Descriptions, p \in PriceStrs : AddItem(d, p)
    \/ \E client \in ClientIds, date \in DateVals, typology \in TypologyVals :
          DialogSave(client, [sites |-> held.quote.sites, items |-> held.quote.items],
                     date, typology, 0)

SpecLines == Init /\ [][NextLines]_vars

-----------------------------------------------------------------------------
(* Conversion: ConvertToInvoiceDialog, MainApplication.convert_to_invoice and *)
(* the callers of DatabaseManager.convert_quote_to_invoice                   *)

\* the texts typed into the order number field of the dialog
OrderTexts == {<<"P", "O", "-", "9">>, <<" ">>, <<>>}

\* the arguments a caller of convert_quote_to_invoice may pass:
\* order_number: str, intervention_date: datetime.date = None
OrderArgs == OrderRefs \cup {""}
DateArgs == InterventionDates \cup {NoText}

\* the checks of ConvertToInvoiceDialog.convert, in their order: the error
\* shown, "" when the dialog closes with a result
ConvertRejection(order_text, date) ==
    IF Strip(order_text) = <<>> THEN "NoOrderNumber"
    ELSE IF ~ValidDate(date) THEN "InvalidDate"
    ELSE ""

\* MainApplication.convert_to_invoice on a row of quotes_tree: the dialog, then
\* convert_quote_to_invoice with the result of the dialog
ConvertToInvoice(quote_id, order_text, date, fault) ==
    /\ quote_id \in DOMAIN quotes
    /\ ~quotes[quote_id].is_invoice
    /\ IF ConvertRejection(order_text, date) # ""
       THEN /\ steps < MaxSteps
            /\ steps' = steps + 1
            /\ fault = 0
            /\ last' = Outcome("convert_to_invoice", quote_id, "ValidationError",
                               ConvertRejection(order_text, date), 0)
            /\ UNCHANGED <<clients, quotes, quote_sites, quote_items, counters, seq,
                           now, held, base, issued, assigned, gens, wasReset,
                           conns, lock, db>>
       ELSE Convert(quote_id, Join(Strip(order_text)), IsoDate(date), fault)

NextConvert ==
    \/ OpenNew
    \/ \E client \in ClientIds, content \in ContentVals, date \in DateVals,
          typology \in TypologyVals :
          DialogSave(client, content, date, typology, 0)
    \/ \E id \in Ids, order \in OrderTexts, date \in DateVals, fault \in Faults :
          ConvertToInvoice(id, order, date, fault)
    \/ \E id \in Ids, order \in OrderArgs, date \in DateArgs, fault \in Faults :
          Convert(id, order, date, fault)
    \/ \E id \in Ids, fault \in Faults : DeleteQuote(id, fault)

SpecConvert == Init /\ [][NextConvert]_vars

-----------------------------------------------------------------------------
(* Properties.  Every step of Next is one call; last' names the call a step   *)
(* made (op, id) and what the caller saw (result, ret, count).                *)

Numbers == {r.number : r \in issued} \cup (IF base > 0 THEN AgedIssued ELSE {})

StoreUnchanged ==
    /\ quotes' = quotes
    /\ quote_sites' = quote_sites
    /\ quote_items' = quote_items
    /\ seq' = seq

\* C1: every stored quote with is_invoiced = true has a non-null
\* linked_invoice_id that is the id of a stored document with is_invoice = true.
C1_InvoicedQuoteHasInvoice ==
    \A i \in DOMAIN quotes :
        (~quotes[i].is_invoice /\ quotes[i].is_invoiced) =>
            /\ quotes[i].linked_invoice_id # NULL
            /\ quotes[i].linked_invoice_id \in DOMAIN quotes
            /\ quotes[quotes[i].linked_invoice_id].is_invoice

\* C2: no two stored documents have the same number, and a number that was
\* assigned to one document is never assigned to another document, whether the
\* first one was deleted, the month changed, the clients share their token or
\* the counter passed 999.
C2_NumbersNeverShared ==
    /\ \A i, j \in DOMAIN quotes : i # j => quotes[i].number # quotes[j].number
    /\ \A a, b \in assigned : a[1] = b[1] => a[2] = b[2]

\* a document of client 1 was stored and deleted, and a document of client 2,
\* whose name has the same token, is stored with a counter beyond 999
C2_Witness ==
    /\ \E a \in assigned : a[2] \notin DOMAIN quotes
    /\ \E r \in issued :
          /\ r.counter > 999
          /\ r.name = NameAcmeDash
          /\ \E i \in DOMAIN quotes : quotes[i].number = r.number

\* C3: for every client name and kind the counters returned within one month
\* increase strictly, each call returns one more than the counter last issued
\* for its key (1 when there was none), and no number is returned twice.
C3_CountersIncrease ==
    \A r \in issued :
        LET before == {s \in issued : s.key = r.key /\ s.n < r.n}
            prev == IF before # {}
                    THEN (CHOOSE s \in before : \A t \in before : t.n <= s.n).counter
                    ELSE IF r.key = AgedKey THEN base ELSE 0
        IN  /\ r.counter = prev + 1
            /\ \A s \in issued :
                  (s.name = r.name /\ s.is_invoice = r.is_invoice
                      /\ s.key[2] = r.key[2] /\ s.n < r.n) => s.counter < r.counter
            /\ \A s \in issued : s.n # r.n => s.number # r.number
            /\ base > 0 => r.number \notin AgedIssued

\* two quote numbers of one client in one month, an invoice number between them
C3_Witness ==
    \E r, s \in issued :
        /\ r.name = s.name /\ r.is_invoice = s.is_invoice /\ r.key = s.key
        /\ s.counter = r.counter + 2

\* C4: convert_quote_to_invoice on a quote that is invoiced, its invoice still
\* stored, is rejected: no document is created, no counter is consumed, the
\* link stays.
C4_SecondConvertRejected ==
    [][LET id == last'.id
       IN  (/\ last'.op = "convert"
            /\ id \in DOMAIN quotes
            /\ ~quotes[id].is_invoice
            /\ quotes[id].is_invoiced
            /\ quotes[id].linked_invoice_id \in DOMAIN quotes
            /\ quotes[quotes[id].linked_invoice_id].is_invoice)
           => /\ last'.result # "ok"
              /\ quotes' = quotes
              /\ counters' = counters]_vars

\* C5: delete_quote on an invoice is never refused, and when the store raises
\* no error the invoice is gone and every remaining quote that was linked to it
\* has is_invoiced = false and linked_invoice_id = null.
C5_DeleteInvoiceResets ==
    [][LET id == last'.id
       IN  (last'.op = "delete_quote" /\ id \in DOMAIN quotes /\ quotes[id].is_invoice)
           => /\ last'.result \in {"ok", "StorageError"}
              /\ last'.result = "ok" =>
                    /\ id \notin DOMAIN quotes'
                    /\ \A i \in DOMAIN quotes' :
                          (i \in DOMAIN quotes /\ quotes[i].linked_invoice_id = id) =>
                              /\ ~quotes'[i].is_invoiced
                              /\ quotes'[i].linked_invoice_id = NULL]_vars

\* an invoice was deleted and the quote it came from is stored and open again
C5_Witness ==
    /\ last.op = "delete_quote" /\ last.result = "ok"
    /\ \E r \in issued : r.is_invoice /\ <<r.number, last.id>> \in assigned
    /\ \E i \in wasReset : i \in DOMAIN quotes /\ ~quotes[i].is_invoiced

\* C6: a convert_quote_to_invoice on a quote whose invoice was deleted succeeds
\* (the store raising no error), links the quote to the invoice it creates, and
\* returns a number that was never issued before.
C6_ReconvertAfterDelete ==
    [][LET id == last'.id
       IN  (/\ last'.op = "convert"
            /\ id \in wasReset
            /\ id \in DOMAIN quotes
            /\ ~quotes[id].is_invoiced
            /\ last'.result # "StorageError")
           => /\ last'.result = "ok"
              /\ seq' \notin DOMAIN quotes
              /\ seq' \in DOMAIN quotes'
              /\ quotes'[seq'].is_invoice
              /\ quotes'[seq'].number = last'.ret
              /\ quotes'[id].is_invoiced
              /\ quotes'[id].linked_invoice_id = seq'
              /\ last'.ret \notin Numbers
              /\ \A a \in assigned : a[1] # last'.ret]_vars

\* the second conversion of a quote, after the first invoice was deleted
C6_Witness ==
    /\ last.op = "convert" /\ last.result = "ok"
    /\ last.id \in wasReset
    /\ last.id \in DOMAIN quotes
    /\ quotes[last.id].is_invoiced
    /\ \E a \in assigned : a[2] \notin DOMAIN quotes /\ a[2] < quotes[last.id].linked_invoice_id

\* C7: delete_quote on a quote with is_invoiced = true fails with the conflict
\* error and changes nothing; on a quote with is_invoiced = false it removes
\* the row (or, the store raising an error, changes nothing).
C7_DeleteQuoteGuard ==
    [][LET id == last'.id
       IN  (last'.op = "delete_quote" /\ id \in DOMAIN quotes /\ ~quotes[id].is_invoice)
           => IF quotes[id].is_invoiced
              THEN /\ last'.result = "Conflict"
                   /\ StoreUnchanged
                   /\ clients' = clients
                   /\ counters' = counters
              ELSE /\ last'.result \in {"ok", "StorageError"}
                   /\ last'.result = "ok" => id \notin DOMAIN quotes'
                   /\ last'.result = "StorageError" => StoreUnchanged]_vars

\* the deletion of an invoiced quote was refused; quote and invoice are stored
C7_Witness ==
    /\ last.op = "delete_quote" /\ last.result = "Conflict"
    /\ last.id \in DOMAIN quotes
    /\ quotes[last.id].is_invoiced
    /\ quotes[last.id].linked_invoice_id \in DOMAIN quotes
    /\ quote_sites[last.id] # <<>>

\* C8: delete_client on a client that documents reference fails with the
\* conflict error carrying their count and changes nothing; on a client without
\* documents it removes that client and nothing else.
C8_DeleteClientGuard ==
    [][LET c == last'.id
           n == Cardinality({i \in DOMAIN quotes : quotes[i].client_id = c})
       IN  (last'.op = "delete_client" /\ c \in DOMAIN clients)
           => /\ StoreUnchanged
              /\ IF n > 0
                 THEN /\ last'.result = "Conflict"
                      /\ last'.count = n
                      /\ clients' = clients
                 ELSE /\ last'.result = "ok"
                      /\ DOMAIN clients' = DOMAIN clients \ {c}
                      /\ \A d \in DOMAIN clients' : clients'[d] = clients[d]]_vars

\* the deletion of a client with a quote and an invoice was refused
C8_Witness ==
    /\ last.op = "delete_client" /\ last.result = "Conflict"
    /\ last.count = 2
    /\ last.id \in DOMAIN clients
    /\ \E i \in DOMAIN quotes : quotes[i].client_id = last.id /\ quotes[i].is_invoice

\* C9: a convert_quote_to_invoice either stores the invoice row, every copied
\* site and item row and the quote's flag and link, or, failing at whatever
\* statement, stores none of them and leaves the quote as it was.
C9_ConvertAtomic ==
    [][LET id == last'.id
           new == seq + 1
       IN  (last'.op = "convert" /\ id \in DOMAIN quotes)
           => \/ /\ last'.result = "ok"
                 /\ new \notin DOMAIN quotes
                 /\ new \in DOMAIN quotes'
                 /\ quotes'[new].is_invoice
                 /\ quote_sites'[new] = quote_sites[new] \o quote_sites[id]
                 /\ quote_items'[new] = quote_items[new] \o quote_items[id]
                 /\ quotes'[id].is_invoiced
                 /\ quotes'[id].linked_invoice_id = new
              \/ /\ last'.result # "ok"
                 /\ StoreUnchanged]_vars

\* a conversion of a quote with sites failed and nothing of it is stored
C9_Witness ==
    /\ last.op = "convert" /\ last.result = "StorageError"
    /\ last.id \in DOMAIN quotes
    /\ quote_sites[last.id] # <<>>
    /\ ~quotes[last.id].is_invoiced
    /\ \A i \in DOMAIN quotes : ~quotes[i].is_invoice
    /\ \E r \in issued : r.is_invoice

\* C10: a successful convert_quote_to_invoice on an open quote creates exactly
\* one document: an invoice with the quote's client_id and typology, the given
\* order reference and intervention date, and site and item lists equal to the
\* quote's; it flags the quote, links it to the invoice, and returns the
\* invoice's number.
C10_ConvertCopies ==
    [][LET id == last'.id
           new == seq + 1
       IN  (/\ last'.op = "convert" /\ last'.result = "ok"
            /\ id \in DOMAIN quotes
            /\ ~quotes[id].is_invoice
            /\ ~quotes[id].is_invoiced)
           => /\ new \notin DOMAIN quotes
              /\ DOMAIN quotes' = DOMAIN quotes \cup {new}
              /\ \A i \in DOMAIN quotes \ {id} : quotes'[i] = quotes[i]
              /\ quotes'[new].is_invoice
              /\ quotes'[new].client_id = quotes[id].client_id
              /\ quotes'[new].typology = quotes[id].typology
              /\ quotes'[new].order_number \in OrderRefs
              /\ quotes'[new].intervention_date \in InterventionDates
              /\ quote_sites'[new] = quote_sites[id]
              /\ quote_items'[new] = quote_items[id]
              /\ quotes'[id] = [quotes[id] EXCEPT !.is_invoiced = TRUE,
                                                  !.linked_invoice_id = new]
              /\ last'.ret = quotes'[new].number]_vars

\* C11: after a save_quote that succeeded, get_quotes returns for the id of
\* the saved Quote a document whose sites and items are the saved ones, no row
\* of an earlier save among them, and whose totals are those of the saved
\* Quote.
C11_SaveRoundTrip ==
    [][(last'.op = "save" /\ last'.result = "ok")
       => /\ last'.id \in DOMAIN quotes'
          /\ LET read == ToQuote(Store', last'.id)
                 saved == [sites |-> last'.sites, items |-> last'.items]
             IN  /\ read.sites = saved.sites
                 /\ read.items = saved.items
                 /\ TotalHt(read) = TotalHt(saved)
                 /\ TotalTva(read) = TotalTva(saved)
                 /\ TotalTtc(read) = TotalTtc(saved)]_vars

\* C12: no stored document with is_invoice = true has is_invoiced = true or
\* a linked_invoice_id: there is no invoice of an invoice.
C12_InvoiceNeverInvoiced ==
    \A i \in DOMAIN quotes :
        quotes[i].is_invoice =>
            /\ ~quotes[i].is_invoiced
            /\ quotes[i].linked_invoice_id = NULL

\* C13: two calls of generate_quote_number on two connections with the same
\* (clean_name, month_year) key return different counter values, however their
\* statements interleave.
C13_ConcurrentCountersDiffer ==
    \A r \in issued : \A s \in issued :
        (r.n # s.n /\ r.key = s.key) => r.counter # s.counter

\* two calls with the same key, the second called before the first returned
C13_Witness ==
    \E r \in issued : \E s \in issued :
        /\ r.key = s.key
        /\ r.n < s.n
        /\ s.started < r.n

\* C14: init_database applied to a file it was already applied to leaves the
\* tables and their columns as they are, and no application of it drops a
\* table, a column or a row.
C14_InitDatabaseIdempotent ==
    [][db'.runs = db.runs + 1
       => /\ db.runs >= 1 => db'.schema = db.schema
          /\ \A t \in DOMAIN db.schema :
                /\ t \in DOMAIN db'.schema
                /\ Range(db.schema[t]) \subseteq Range(db'.schema[t])
                /\ db'.rows[t] >= db.rows[t]]_vars

\* init_database was applied twice to the file of an earlier version that held
\* rows, and its first application added columns to quotes
C14_Witness ==
    /\ db.runs = 2
    /\ db.rows["quotes"] > 0
    /\ Len(db.schema["quotes"]) > Len(QuotesColsFirst)
    /\ "quote_date" \in Range(db.schema["quotes"])
    /\ "is_invoiced" \notin Range(db.schema["quotes"])

\* C15: QuoteDialog.save_quote on a draft with no client selected, with a date
\* that is no calendar date, or with neither a site nor an item is rejected:
\* nothing is written to the store, no counter is incremented, and the draft
\* keeps no id and no number.
C15_CreateRejected ==
    [][\A client \in ClientIds \cup {NULL}, content \in ContentVals,
          date \in DateVals, typology \in TypologyVals :
          (/\ held.open
           /\ held.quote.id = NULL
           /\ held.quote.number = ""
           /\ \/ client = NULL
              \/ date.day > 28 /\ date.month = 2 /\ date.year = 2025
              \/ Len(content.sites) + Len(content.items) = 0
           /\ \E fault \in Faults : DialogSave(client, content, date, typology, fault))
          => /\ last'.result = "ValidationError"
             /\ StoreUnchanged
             /\ counters' = counters
             /\ gens' = gens
             /\ held'.open
             /\ held'.quote.id = NULL
             /\ held'.quote.number = ""]_vars

\* a draft with a client and a site was rejected for its date, after another
\* document was saved
C15_Witness ==
    /\ last.op = "save"
    /\ last.result = "ValidationError"
    /\ last.ret = "InvalidDate"
    /\ held.open
    /\ held.quote.id = NULL
    /\ quotes # <<>>

\* C16: convert_quote_to_invoice and delete_quote called with an id that no
\* stored document has fail with NotFound and change nothing: no document, no
\* line, no flag, no client and no counter.
C16_MissingIdNotFound ==
    [][(last'.op \in {"convert", "delete_quote"} /\ last'.id \notin DOMAIN quotes)
       => /\ last'.result = "NotFound"
          /\ StoreUnchanged
          /\ counters' = counters
          /\ clients' = clients
          /\ gens' = gens]_vars

\* convert_quote_to_invoice was called with the id of a document that was
\* deleted, in a store that holds another document
C16_Witness ==
    /\ last.op = "convert"
    /\ last.result = "NotFound"
    /\ last.id <= seq
    /\ quotes # <<>>

\* C17: generate_quote_number returns prefix "." token "." MMYYYY counter, with
\* the prefix SA of a quote and FA of an invoice, the token the client name in
\* upper case without the characters outside A-Z, a-z, 0-9 and cut to ten
\* characters, and the counter in three digits at least, in more above 999.
\* "Acme Co" in May 2025 gives SA.ACMECO.052025001, then SA.ACMECO.052025002;
\* a name that leaves an empty token gives a number too.
C17_NumberFormat ==
    \A r \in issued :
        LET prefix == IF r.is_invoice THEN "FA" ELSE "SA"
            token == IF r.name \in {NameAcmeCo, NameAcmeDash} THEN "ACMECO"
                     ELSE IF r.name = NameLong THEN "DUPONTFILS"
                     ELSE ""
            month == IF now.month = 5 THEN "052025" ELSE "122025"
            digits == (1 :> "001") @@ (2 :> "002") @@ (3 :> "003") @@ (4 :> "004")
                      @@ (999 :> "999") @@ (1000 :> "1000") @@ (1001 :> "1001")
                      @@ (1002 :> "1002") @@ (1003 :> "1003")
        IN  /\ r.number = prefix \o "." \o token \o "." \o month \o digits[r.counter]
            /\ (r.name = NameAcmeCo /\ ~r.is_invoice /\ now.month = 5 /\ base = 0)
                  => /\ r.counter = 1 => r.number = "SA.ACMECO.052025001"
                     /\ r.counter = 2 => r.number = "SA.ACMECO.052025002"
            /\ (r.n = 1 /\ (base = 0 \/ r.key # AgedKey)) => r.counter = 1

\* calls returned a number with an empty token, a number with a counter of
\* three digits and the next with a counter of four
C17_Witness ==
    /\ \E r \in issued : r.name = NameEmpty /\ r.number = "SA..052025001"
    /\ \E r \in issued : r.counter = 999 /\ r.number = "SA.ACMECO.052025999"
    /\ \E r \in issued : r.counter = 1000 /\ r.number = "FA.ACMECO.0520251000"

\* C18: for every document read from the store, total_ht is the sum of the
\* prices of its sites plus the sum of price times quantity of its items,
\* total_tva is total_ht times the VAT rate of 0.20 and total_ttc is their sum,
\* all three following the lines the store holds at the read; sites of 100.00
\* and 250.00 give 350.00, 70.00 and 420.00.
C18_Totals ==
    \A i \in DOMAIN quotes :
        LET read == ToQuote(Store, i)
            site[k \in 0 .. Len(quote_sites[i])] ==
                IF k = 0 THEN 0 ELSE site[k - 1] + quote_sites[i][k].price_ht
            item[k \in 0 .. Len(quote_items[i])] ==
                IF k = 0 THEN 0
                ELSE item[k - 1]
                     + quote_items[i][k].price_ht * quote_items[i][k].quantity
            ht == site[Len(quote_sites[i])] + item[Len(quote_items[i])]
        IN  /\ TotalHt(read) = ht
            /\ 5 * TotalTva(read) = ht
            /\ TotalTtc(read) = ht + TotalTva(read)
            /\ (Len(read.sites) = 2 /\ read.items = <<>>
                /\ read.sites[1].price_ht = 10000 /\ read.sites[2].price_ht = 25000)
                  => /\ TotalHt(read) = 35000
                     /\ TotalTva(read) = 7000
                     /\ TotalTtc(read) = 42000

\* a save replaced the lines of the first document, which now reads 350.00,
\* 70.00 and 420.00, while another document with an item reads 150.00
C18_Witness ==
    /\ last.op = "save" /\ last.result = "ok" /\ last.id = 1
    /\ 2 \in DOMAIN quotes /\ 1 \in DOMAIN quotes
    /\ TotalHt(ToQuote(Store, 1)) = 35000
    /\ TotalTtc(ToQuote(Store, 1)) = 42000
    /\ quote_items[2] # <<>>
    /\ TotalHt(ToQuote(Store, 2)) = 15000

\* C19: every row of quote_sites and of quote_items has the quote_id of a
\* document the store holds, in every state: after a save_quote or delete_quote
\* that failed, and after the retry of a failed save.
C19_NoOrphanLines ==
    \A i \in Ids :
        (quote_sites[i] # <<>> \/ quote_items[i] # <<>>) => i \in DOMAIN quotes

\* C20: a save_quote that fails, at the header statement, at the deletion of the
\* lines or at the insertion of any line, leaves in the store the header rows
\* and the lines it held before the call.
C20_SaveAtomic ==
    [][(last'.op = "save" /\ last'.result = "StorageError") => StoreUnchanged]_vars

\* the save of a stored document failed that passed another client and other
\* sites than the stored ones
C20_Witness ==
    /\ last.op = "save"
    /\ last.result = "StorageError"
    /\ last.id \in DOMAIN quotes
    /\ last.sites # quote_sites[last.id]
    /\ quotes[last.id].client_id # held.quote.client_id

\* C21: when the first save_quote of a draft fails, the Quote object of the
\* dialog still has no id afterwards, so that the next save takes the INSERT
\* branch.
C21_FailedSaveKeepsDraft ==
    [][(/\ held.open
        /\ held.quote.id = NULL
        /\ last'.op = "save"
        /\ last'.result = "StorageError")
       => /\ held'.open
          /\ held'.quote.id = NULL]_vars

\* C22: the increment of the counter is undone together with the insert that
\* uses the number: a convert_quote_to_invoice or a save that fails in the store
\* leaves every counter at its value from before the call.
C22_CounterRollsBack ==
    [][(last'.op \in {"convert", "save"} /\ last'.result = "StorageError")
       => counters' = counters]_vars

\* C23: save_quote changes the is_invoiced and the linked_invoice_id of no
\* stored document, also when the Quote it is given was read before a
\* conversion or before the deletion of an invoice.
C23_SaveKeepsInvoicedFlag ==
    [][last'.op = "save"
       => \A i \in DOMAIN quotes \cap DOMAIN quotes' :
             /\ quotes'[i].is_invoiced = quotes[i].is_invoiced
             /\ quotes'[i].linked_invoice_id = quotes[i].linked_invoice_id]_vars

\* C24: the save of a Quote whose id is the id of a stored document leaves
\* unchanged the number, the kind and the created_at of that document, every
\* counter, and the header and the lines of every other document.
C24_ResaveFrame ==
    [][(/\ last'.op = "save"
        /\ last'.result # "ValidationError"
        /\ held.quote.id \in DOMAIN quotes)
       => LET id == held.quote.id
          IN  /\ DOMAIN quotes' = DOMAIN quotes
              /\ quotes'[id].number = quotes[id].number
              /\ quotes'[id].is_invoice = quotes[id].is_invoice
              /\ quotes'[id].created_at = quotes[id].created_at
              /\ counters' = counters
              /\ \A j \in Ids \ {id} :
                    /\ j \in DOMAIN quotes => quotes'[j] = quotes[j]
                    /\ quote_sites'[j] = quote_sites[j]
                    /\ quote_items'[j] = quote_items[j]]_vars

\* a stored document was saved again in a later month with other lines, while
\* the store held another document
C24_Witness ==
    /\ last.op = "save" /\ last.result = "ok"
    /\ last.id \in DOMAIN quotes
    /\ quotes[last.id].created_at # now
    /\ \E j \in DOMAIN quotes : j # last.id
    /\ quote_sites[last.id] = <<Site1, Site2>>

\* C25: the lines of an invoice are copies: a save of the quote it was made of,
\* with other sites or items, leaves the sites and items of the invoice as they
\* are in the store, and the deletion of an invoice leaves the sites and items
\* of every quote as they are.
C25_InvoiceLinesIndependent ==
    [][/\ (/\ last'.op = "save"
           /\ held.quote.id \in DOMAIN quotes
           /\ ~quotes[held.quote.id].is_invoice)
          => \A v \in DOMAIN quotes :
                (quotes[v].is_invoice /\ v # held.quote.id)
                   => /\ quote_sites'[v] = quote_sites[v]
                      /\ quote_items'[v] = quote_items[v]
       /\ (/\ last'.op = "delete_quote"
           /\ last'.id \in DOMAIN quotes
           /\ quotes[last'.id].is_invoice)
          => \A j \in DOMAIN quotes :
                (~quotes[j].is_invoice /\ j # last'.id)
                   => /\ quote_sites'[j] = quote_sites[j]
                      /\ quote_items'[j] = quote_items[j]]_vars

\* a quote was saved with other lines after its conversion: the invoice it is
\* linked to still has the lines of the conversion
C25_Witness ==
    /\ last.op = "save" /\ last.result = "ok"
    /\ last.id \in DOMAIN quotes
    /\ quotes[last.id].is_invoiced
    /\ quotes[last.id].linked_invoice_id \in DOMAIN quotes
    /\ quote_sites[last.id] = <<Site1, Site2>>
    /\ quote_sites[quotes[last.id].linked_invoice_id] = <<Site1>>
    /\ quote_items[quotes[last.id].linked_invoice_id] = <<Item1>>

\* C26: whatever subset of the migrated columns an older database lacks,
\* init_database ends with all of them: quote_date, intervention_date,
\* typology, site_number, site_address, is_invoiced and linked_invoice_id in
\* quotes; address, postal_code, city, latitude and longitude in quote_sites;
\* and it keeps the rows.
C26_MigrationComplete ==
    [][db'.runs = db.runs + 1
       => /\ {"quote_date", "intervention_date", "typology", "site_number",
              "site_address", "is_invoiced", "linked_invoice_id"}
                \subseteq Range(db'.schema["quotes"])
          /\ {"address", "postal_code", "city", "latitude", "longitude"}
                \subseteq Range(db'.schema["quote_sites"])
          /\ \A t \in DOMAIN db.rows : db'.rows[t] >= db.rows[t]]_vars

\* C27: every site that add_site or update_site accepted and every item that
\* add_item accepted has a price of zero or more, in the dialog and in the
\* store, so that no stored document has a negative total_ht.
C27_PricesNonNegative ==
    /\ \A k \in DOMAIN held.quote.sites : held.quote.sites[k].price_ht >= 0
    /\ \A k \in DOMAIN held.quote.items : held.quote.items[k].price_ht >= 0
    /\ \A i \in DOMAIN quotes : TotalHt(ToQuote(Store, i)) >= 0

\* C28: the counters of quotes and of invoices are apart: the first invoice
\* number generated for a client in a month has the counter 1, however many
\* quote numbers were generated for that client in that month.
C28_FirstInvoiceCounter ==
    \A r \in issued :
        (/\ r.is_invoice
         /\ ~\E e \in issued : e.is_invoice /\ e.key = r.key /\ e.n < r.n)
           => r.counter = 1

\* C29: a conversion with an empty order reference or without a valid
\* intervention date is refused before anything is written, so every stored
\* invoice has an order_number that is not empty and an intervention_date.
C29_InvoiceHasOrderAndDate ==
    \A i \in DOMAIN quotes :
        quotes[i].is_invoice =>
            /\ quotes[i].order_number # ""
            /\ quotes[i].intervention_date # NoText

\* C30: the Conflict that delete_quote raises for an invoiced quote names the
\* invoice that blocks the deletion, by its id or by its number.
C30_ConflictNamesInvoice ==
    [][(last'.op = "delete_quote" /\ last'.result = "Conflict")
       => LET v == quotes[last'.id].linked_invoice_id
          IN  v \in DOMAIN quotes
                 => \/ last'.ret = quotes[v].number
                    \/ last'.ret = Dec(v)]_vars

====
